---- MODULE Spec2Model ----
(***************************************************************************)
(* Model of the flamaster account resources (src/account/api.py), the      *)
(* generic resource base (src/core/resources.py) and the cart-expiry task  *)
(* (src/product/tasks.py).                                                 *)
(*                                                                         *)
(* Every HTTP handler is one atomic action.  Each subsystem has its own    *)
(* specification (SpecSession, SpecCart, SpecPage, SpecRole, SpecBank,     *)
(* SpecProfile); the variables a subsystem does not use keep the value its *)
(* initial predicate gives them.                                           *)
(***************************************************************************)
EXTENDS Integers, Sequences, FiniteSets, TLC

VARIABLES
    users,          \* User table: id -> [email, password, is_superuser, is_admin, customer_id]
    customers,      \* Customer table: id -> [user_id]   (user_id = None: anonymous customer)
    carts,          \* Cart table: id -> [customer_id, price_option_id, amount, touched_at]
    session,        \* flask session: [customer_id, user_id] (None: key absent) and
                    \* [identity_name, identity_auth_type] (TRUE: key present)
    current_user,   \* flask-login current_user: a user id, or None for the anonymous user
    shelves,        \* Shelf table: id -> [price_option_id, quantity]
    now,            \* datetime.utcnow(), in minutes
    roles,          \* Role table: id -> name
    bank_accounts,  \* BankAccount table: id -> [user_id]
    addresses,      \* Address table: id -> [customer_id, attached_as]
    runs,           \* invocations of the cart-expiry task that run step by step:
                    \* id -> [pc, marker, rows, response, overlapped]
    lastOp,         \* the request handled last
    resp            \* the response to it

vars == <<users, customers, carts, session, current_user, shelves, now,
          roles, bank_accounts, addresses, runs, lastOp, resp>>

(***************************************************************************)
(* Values                                                                  *)
(***************************************************************************)
None == 0                      \* Python's None; every id is >= 1

OK == 200
CREATED == 201
ACCEPTED == 202
NO_CONTENT == 204
BAD_REQUEST == 400
UNAUTHORIZED == 401
FORBIDDEN == 403
NOT_FOUND == 404
METHOD_NOT_ALLOWED == 405
INTERNAL_ERR == 500            \* an exception no handler catches

MaxUsers == 3                  \* user ids 1..MaxUsers; the customer of user u has id u
MaxAnon == 2                   \* anonymous customers have ids MaxUsers+1..MaxUsers+MaxAnon
MaxCarts == 2                  \* cart ids 1..MaxCarts

UserIds == 1..MaxUsers
AnonIds == (MaxUsers + 1)..(MaxUsers + MaxAnon)
CustomerIds == UserIds \cup AnonIds
CartIds == 1..MaxCarts

ValidEmails == {"a@x.org", "b@x.org"}
EmailInputs == ValidEmails \cup {"not-an-email"}
Passwords == {"pw1", "pw2"}
Absent == "<absent>"           \* the optional key 'password' is not in the body
PasswordInputs == Passwords \cup {Absent}

NoOp == [op |-> "none"]
NoResp == [status |-> None]

\* flask.ext.security.utils.encrypt_password / verify_password: a one-way
\* hash, and the check of a clear password against it.
encrypt_password(p) == <<"hash", p>>
verify_password(p, h) == p # Absent /\ h = encrypt_password(p)

\* t.Email of SessionResource.validation
IsEmail(e) == e \in ValidEmails

(***************************************************************************)
(* SessionResource                                                         *)
(***************************************************************************)
\* _security.datastore.find_user(email=...): the user's id, or None
find_user(email) ==
    IF \E u \in DOMAIN users : users[u].email = email
    THEN CHOOSE u \in DOMAIN users : users[u].email = email
    ELSE None

\* User.is_unique(email)
is_unique(email) == \A u \in DOMAIN users : users[u].email # email

\* SessionResource._get_response
_get_response ==
    [is_anonymous |-> (current_user = None), uid |-> session.user_id]

\* SessionResource.get
SessionGet ==
    /\ lastOp' = [op |-> "session.get"]
    /\ resp' = [status |-> OK, body |-> _get_response]
    /\ UNCHANGED <<addresses, runs, users, customers, carts, session, current_user, shelves,
                   now, roles, bank_accounts>>

\* register_user(email, password): a new User row and its Customer
register_user(email, password) ==
    LET u == CHOOSE x \in UserIds : x \notin DOMAIN users
    IN  /\ users' = [x \in DOMAIN users \cup {u} |->
                        IF x = u
                        THEN [email |-> email,
                              password |-> encrypt_password(password),
                              is_superuser |-> FALSE,
                              is_admin |-> FALSE,
                              customer_id |-> u]
                        ELSE users[x]]
        /\ customers' = [c \in DOMAIN customers \cup {u} |->
                            IF c = u THEN [user_id |-> u] ELSE customers[c]]

\* A post that registers without asking User.is_unique
SessionPostUnchecked(email, password) ==
    /\ lastOp' = [op |-> "session.post", email |-> email, password |-> password]
    /\ IF ~IsEmail(email)
       THEN /\ resp' = [status |-> BAD_REQUEST, errors |-> {"email"}]
            /\ UNCHANGED <<users, customers>>
       ELSE /\ \E x \in UserIds : x \notin DOMAIN users
            /\ register_user(email, IF password = Absent THEN "*" ELSE password)
            /\ resp' = [status |-> CREATED, body |-> _get_response]
    /\ UNCHANGED <<addresses, runs, carts, session, current_user, shelves, now, roles,
                   bank_accounts>>

\* SessionResource.post
SessionPost(email, password) ==
    /\ lastOp' = [op |-> "session.post", email |-> email, password |-> password]
    /\ IF ~IsEmail(email)
       THEN /\ resp' = [status |-> BAD_REQUEST, errors |-> {"email"}]
            /\ UNCHANGED <<users, customers>>
       ELSE IF ~is_unique(email)
       THEN /\ resp' = [status |-> BAD_REQUEST, errors |-> {"email"}]
            /\ UNCHANGED <<users, customers>>
       ELSE /\ \E x \in UserIds : x \notin DOMAIN users
            /\ register_user(email, IF password = Absent THEN "*" ELSE password)
            /\ resp' = [status |-> CREATED, body |-> _get_response]
    /\ UNCHANGED <<addresses, runs, carts, session, current_user, shelves, now, roles,
                   bank_accounts>>

\* A login_user that records nothing
login_user_dropped(user) == current_user

\* login_user(user): the value of current_user from then on
login_user(user) == user

\* An update that matches no row
CartsNotMoved(customer, target) == carts

\* Cart.for_customer(customer).update({'customer_id': target})
CartsMovedTo(customer, target) ==
    [c \in DOMAIN carts |->
        IF carts[c].customer_id = customer
        THEN [carts[c] EXCEPT !.customer_id = target]
        ELSE carts[c]]

\* customer.delete()
CustomerDeleted(customer) ==
    [c \in DOMAIN customers \ {customer} |-> customers[c]]

\* SessionResource._authenticate, the branch where the password verifies
_authenticate(user) ==
    LET customer_id == session.customer_id
        merge == /\ customer_id # None
                 /\ customer_id \in DOMAIN customers
                 /\ customers[customer_id].user_id = None
    IN  /\ current_user' = login_user(user)
        /\ carts' = IF merge
                    THEN CartsMovedTo(customer_id, users[user].customer_id)
                    ELSE carts
        /\ customers' = IF merge THEN CustomerDeleted(customer_id) ELSE customers
        /\ session' = [session EXCEPT !.customer_id = users[user].customer_id,
                                      !.user_id = user]

\* SessionResource.put
SessionPut(email, password) ==
    /\ lastOp' = [op |-> "session.put", email |-> email, password |-> password,
                  customer_id |-> session.customer_id]
    /\ IF ~IsEmail(email)
       THEN \* self.clean raises t.DataError
            /\ resp' = [status |-> NOT_FOUND, errors |-> {"email"}]
            /\ UNCHANGED <<customers, carts, session, current_user>>
       ELSE IF find_user(email) = None
       THEN \* user.password on None: AttributeError, which put does not catch
            /\ resp' = [status |-> INTERNAL_ERR]
            /\ UNCHANGED <<customers, carts, session, current_user>>
       ELSE IF verify_password(password, users[find_user(email)].password)
       THEN /\ _authenticate(find_user(email))
            /\ resp' = [status |-> ACCEPTED,
                        body |-> [is_anonymous |-> (current_user' = None),
                                  uid |-> session'.user_id]]
       ELSE /\ resp' = [status |-> NOT_FOUND, errors |-> {"email"}]
            /\ UNCHANGED <<customers, carts, session, current_user>>
    /\ UNCHANGED <<addresses, runs, users, shelves, now, roles, bank_accounts>>

\* A loop over the identity keys alone, as in flask-security's logout_user
SessionKeysPoppedIdentityOnly(s) ==
    [s EXCEPT !.identity_name = FALSE, !.identity_auth_type = FALSE]

\* for key in ('identity.name', 'identity.auth_type', 'customer_id'):
\*     session.pop(key, None)
SessionKeysPopped(s) ==
    [s EXCEPT !.identity_name = FALSE, !.identity_auth_type = FALSE,
              !.customer_id = None]

\* logout_user(): flask-security pops the identity keys, flask-login the
\* user id.  The identity_changed signal writes nothing to the session
\* (flask-security sets Principal up without its session saver).
logout_user(s) ==
    [s EXCEPT !.identity_name = FALSE, !.identity_auth_type = FALSE,
              !.user_id = None]

\* SessionResource.delete
SessionDelete ==
    /\ lastOp' = [op |-> "session.delete", uid |-> session.user_id,
                  customer_id |-> session.customer_id]
    /\ session' = logout_user(SessionKeysPopped(session))
    /\ current_user' = None
    /\ resp' = [status |-> NO_CONTENT,
                body |-> [is_anonymous |-> TRUE, uid |-> None]]
    /\ UNCHANGED <<addresses, runs, users, customers, carts, shelves, now, roles, bank_accounts>>

\* A cart row of the session model: only its owner matters here
SessionCart(c) ==
    [customer_id |-> c, price_option_id |-> 1, amount |-> 1, touched_at |-> 0]

\* The stores a browser session can find: one registered account or none,
\* the anonymous customers, carts of any of these customers, and a session
\* whose customer_id is absent, names an anonymous customer, or is stale,
\* with or without identity keys left by an earlier cookie.
InitSession ==
    /\ users \in {<<>>,
                  (1 :> [email |-> "a@x.org",
                         password |-> encrypt_password("pw1"),
                         is_superuser |-> FALSE, is_admin |-> FALSE,
                         customer_id |-> 1])}
    /\ customers = [c \in DOMAIN users \cup AnonIds |->
                       [user_id |-> IF c \in UserIds THEN c ELSE None]]
    /\ carts \in [CartIds -> {SessionCart(c) : c \in DOMAIN customers}]
    /\ \E cookie \in BOOLEAN :
          session \in [customer_id : {None} \cup AnonIds \cup {MaxUsers + MaxAnon + 1},
                       user_id : {None},
                       identity_name : {cookie}, identity_auth_type : {cookie}]
    /\ current_user = None
    /\ shelves = <<>>
    /\ now = 0
    /\ roles = <<>>
    /\ bank_accounts = <<>>
    /\ runs = <<>>
    /\ addresses = <<>>
    /\ lastOp = NoOp
    /\ resp = NoResp

NextSession ==
    \/ SessionGet
    \/ \E e \in EmailInputs, p \in PasswordInputs : SessionPost(e, p)
    \/ \E e \in EmailInputs, p \in PasswordInputs : SessionPut(e, p)
    \/ SessionDelete

SpecSession == InitSession /\ [][NextSession]_vars

(***************************************************************************)
(* Claims about SessionResource                                            *)
(***************************************************************************)
\* The request names no registered account
NoAccount(email) == \A u \in DOMAIN users : users[u].email # email

\* The request names a registered account and carries its password
RightCredentials(email, password) ==
    \E u \in DOMAIN users :
        /\ users[u].email = email
        /\ password # Absent
        /\ users[u].password = encrypt_password(password)

\* C1: a Session PUT that fails, because no account has the email or because
\* the password does not match, is answered 404 with a field error and
\* changes neither the logged-in user, the session, the Carts nor the
\* Customers.
C1_FailedPutIs404 ==
    [][(lastOp'.op = "session.put"
            /\ ~RightCredentials(lastOp'.email, lastOp'.password))
        => (/\ resp'.status = NOT_FOUND
            /\ resp'.errors # {}
            /\ current_user' = current_user
            /\ session' = session
            /\ carts' = carts
            /\ customers' = customers)]_vars

\* C2: a Session PUT with the email and password of a registered account,
\* made in an anonymous session, logs the user in; the user stays logged in
\* until a Session DELETE; and every GET snapshot reports is_anonymous as
\* the login state has it, so it is false from the PUT to the next logout.
C2_LoginUntilLogout ==
    /\ [][(lastOp'.op = "session.put" /\ current_user = None
              /\ RightCredentials(lastOp'.email, lastOp'.password))
          => (current_user' # None /\ resp'.body.is_anonymous = FALSE)]_vars
    /\ [][(current_user # None /\ lastOp'.op # "session.delete")
          => current_user' # None]_vars
    /\ [][lastOp'.op = "session.get"
          => (resp'.body.is_anonymous = (current_user = None)
              /\ current_user' = current_user)]_vars

C2_Witness ==
    /\ lastOp.op = "session.get"
    /\ current_user # None
    /\ resp.body.is_anonymous = FALSE

\* C3: a successful Session PUT sets the session's customer_id to the
\* authenticated user's Customer; if the session's customer_id named a
\* Customer with no User, each of that Customer's Carts now belongs to the
\* user's Customer and the anonymous Customer is gone; and no Session PUT
\* deletes a Customer linked to a User or takes a Cart from it.
C3_CartMerge ==
    [][lastOp'.op = "session.put" =>
        LET anon == session.customer_id
            email == lastOp'.email
        IN  /\ RightCredentials(email, lastOp'.password) =>
                \E u \in DOMAIN users :
                    /\ users[u].email = email
                    /\ session'.customer_id = users[u].customer_id
                    /\ (anon \in DOMAIN customers /\ customers[anon].user_id = None)
                        => /\ anon \notin DOMAIN customers'
                           /\ \A c \in DOMAIN carts :
                                carts[c].customer_id = anon
                                => (c \in DOMAIN carts'
                                    /\ carts'[c].customer_id = users[u].customer_id)
            /\ \A k \in DOMAIN customers :
                customers[k].user_id # None
                => /\ k \in DOMAIN customers'
                   /\ \A c \in DOMAIN carts :
                        carts[c].customer_id = k
                        => (c \in DOMAIN carts' /\ carts'[c].customer_id = k)]_vars

C3_Witness ==
    /\ lastOp.op = "session.put"
    /\ resp.status = ACCEPTED
    /\ lastOp.customer_id \in AnonIds
    /\ lastOp.customer_id \notin DOMAIN customers
    /\ \A c \in DOMAIN carts : carts[c].customer_id = session.customer_id
    /\ \E k \in AnonIds : k \in DOMAIN customers

\* C5: a Session POST whose email is already registered is answered 400
\* with a field error under the key email and leaves the accounts as they
\* were; no two accounts ever have the same email.
C5_DuplicateEmailRejected ==
    /\ [][(lastOp'.op = "session.post" /\ ~NoAccount(lastOp'.email))
          => (/\ resp'.status = BAD_REQUEST
              /\ "email" \in resp'.errors
              /\ users' = users
              /\ customers' = customers)]_vars
    /\ [](\A u, v \in DOMAIN users :
            users[u].email = users[v].email => u = v)

C5_Witness ==
    /\ lastOp.op = "session.post"
    /\ resp.status = BAD_REQUEST
    /\ \E u \in DOMAIN users : users[u].email = lastOp.email
    /\ Cardinality(DOMAIN users) = 2

(***************************************************************************)
(* Cart expiry task (src/product/tasks.py)                                 *)
(***************************************************************************)
ExpiryMinutes == 20            \* timedelta(minutes=20)
TickMinutes == 10              \* the clock advances in steps of this size
MaxNow == 40                   \* the clock stops here
MaxShelves == 2                \* shelf ids 1..MaxShelves
MaxAmount == 2                 \* a cart reserves 1..MaxAmount
PriceOptions == {1, 2}
ShelfIds == 1..MaxShelves

\* Cart.expired(marker): the carts last touched before the marker
Expired(marker) == {c \in DOMAIN carts : carts[c].touched_at < marker}

\* An UPDATE that lost its filter_by: every shelf gets the amount
ShelfUpdatedUnfiltered(sh, cart) ==
    [s \in DOMAIN sh |-> [sh[s] EXCEPT !.quantity = @ + cart.amount]]

\* Shelf.query.filter_by(price_option_id=cart.price_option_id)
\*      .update({'quantity': Shelf.quantity + cart.amount})
ShelfUpdated(sh, cart) ==
    [s \in DOMAIN sh |->
        IF sh[s].price_option_id = cart.price_option_id
        THEN [sh[s] EXCEPT !.quantity = @ + cart.amount]
        ELSE sh[s]]

\* for cart in expired_q: ...   (one UPDATE per expired cart, in query order)
RECURSIVE RestoreAll(_, _)
RestoreAll(sh, cs) ==
    IF cs = {} THEN sh
    ELSE LET c == CHOOSE x \in cs : \A y \in cs : x <= y
         IN  RestoreAll(ShelfUpdated(sh, carts[c]), cs \ {c})

\* drop_unordered_cart_items, run to its commit
DropUnorderedCartItems ==
    LET expirity_marker == now - ExpiryMinutes
        expired_q == Expired(expirity_marker)
    IN  /\ lastOp' = [op |-> "drop"]
        /\ shelves' = RestoreAll(shelves, expired_q)
        /\ resp' = [count |-> Cardinality(expired_q)]
        /\ carts' = [c \in DOMAIN carts \ expired_q |-> carts[c]]
        /\ UNCHANGED <<addresses, runs, users, customers, session, current_user, now, roles,
                       bank_accounts>>

\* Time passes between two runs of the task
Tick ==
    /\ now + TickMinutes <= MaxNow
    /\ now' = now + TickMinutes
    /\ lastOp' = [op |-> "tick"]
    /\ resp' = NoResp
    /\ UNCHANGED <<addresses, runs, users, customers, carts, session, current_user, shelves,
                   roles, bank_accounts>>

\* Any store of shelves and carts; carts were touched at minute 0 or 10
InitCart ==
    /\ shelves \in [ShelfIds -> [price_option_id : PriceOptions, quantity : {0, 3}]]
    /\ carts \in [CartIds -> [customer_id : {1}, price_option_id : PriceOptions,
                              amount : 1..MaxAmount,
                              touched_at : {0, TickMinutes}]]
    /\ now = ExpiryMinutes
    /\ users = <<>>
    /\ customers = <<>>
    /\ session = [customer_id |-> None, user_id |-> None,
                  identity_name |-> FALSE, identity_auth_type |-> FALSE]
    /\ current_user = None
    /\ roles = <<>>
    /\ bank_accounts = <<>>
    /\ runs = <<>>
    /\ addresses = <<>>
    /\ lastOp = NoOp
    /\ resp = NoResp

NextCart == DropUnorderedCartItems \/ Tick

SpecCart == InitCart /\ [][NextCart]_vars

\* The sum of the amounts of a set of carts
RECURSIVE AmountOf(_)
AmountOf(cs) ==
    IF cs = {} THEN 0
    ELSE LET c == CHOOSE x \in cs : TRUE
         IN  carts[c].amount + AmountOf(cs \ {c})

\* C4: one run of drop_unordered_cart_items adds to each Shelf exactly the
\* amounts of the Carts touched before the 20-minute cutoff that reserve its
\* price option, leaves the other Shelves and the other Carts as they were,
\* deletes exactly the expired Carts and returns their number; a run right
\* after a run returns 0 and changes no Shelf.
C4_ExpiryRestoresExactly ==
    [][lastOp'.op = "drop" =>
        LET old == {c \in DOMAIN carts : carts[c].touched_at + ExpiryMinutes < now}
        IN  /\ DOMAIN shelves' = DOMAIN shelves
            /\ \A s \in DOMAIN shelves :
                /\ shelves'[s].price_option_id = shelves[s].price_option_id
                /\ shelves'[s].quantity = shelves[s].quantity
                      + AmountOf({c \in old : carts[c].price_option_id
                                                = shelves[s].price_option_id})
            /\ DOMAIN carts' = DOMAIN carts \ old
            /\ \A c \in DOMAIN carts' : carts'[c] = carts[c]
            /\ resp'.count = Cardinality(old)
            /\ lastOp.op = "drop" => (resp'.count = 0 /\ shelves' = shelves)]_vars

C4_Witness ==
    /\ lastOp.op = "drop"
    /\ resp.count = 1
    /\ Cardinality(DOMAIN carts) = MaxCarts - 1
    /\ \E s \in DOMAIN shelves : shelves[s].quantity \notin {0, 3}

(***************************************************************************)
(* Pagination (src/core/resources.py)                                      *)
(***************************************************************************)
DefaultPage == 1               \* t.Key('page', default=1)
DefaultPageSize == 20          \* Resource.page_size
MaxCount == 7                  \* the query matches 0..MaxCount objects
MaxPage == 4                   \* requested pages 0..MaxPage
MaxPageSize == 3               \* requested page sizes 0..MaxPageSize

\* request.args: the keys page and page_size, each there or not
RequestArgs ==
    {a \in UNION {[d -> 0..MaxPage] : d \in SUBSET {"page", "page_size"}} :
        "page_size" \in DOMAIN a => a.page_size <= MaxPageSize}

Min(a, b) == IF a < b THEN a ELSE b
Max(a, b) == IF a > b THEN a ELSE b

\* self.filters_map.check(request_args): t.Int(gt=0) on the keys that are there
ArgsValid(args) == \A k \in DOMAIN args : args[k] > 0

\* A page count that forgets the partly filled last page
LastPageTruncated(count, page_size) == count \div page_size

\* int(count / self.page_size) + (count % self.page_size and 1)
LastPage(count, page_size) ==
    (count \div page_size) + (IF count % page_size # 0 THEN 1 ELSE 0)

\* Resource._prepare_pagination
_prepare_pagination(count, self_page, page_size) ==
    LET last_page == LastPage(count, page_size)
        page1 == IF self_page < last_page THEN self_page ELSE last_page
        page == IF page1 > 0 THEN page1 ELSE 1
    IN  [bound |-> Min(page_size * page, count),
         count |-> count,
         last_page |-> last_page,
         offset |-> (page - 1) * page_size,
         page |-> page,
         page_size |-> page_size]

\* query.limit(n).offset(k) over the objects 1..count, in query order
LimitOffset(count, n, k) ==
    [i \in 1..Max(0, Min(n, count - k)) |-> k + i]

\* ModelResource.get without an id: clean_args, paginate, gen_list_response
ListGet(count, args) ==
    /\ lastOp' = [op |-> "list.get", count |-> count, args |-> args]
    /\ IF ArgsValid(args)
       THEN LET self_page == IF "page" \in DOMAIN args
                             THEN args.page ELSE DefaultPage
                self_page_size == IF "page_size" \in DOMAIN args
                                  THEN args.page_size ELSE DefaultPageSize
                paging == _prepare_pagination(count, self_page, self_page_size)
                items == LimitOffset(count, paging.page_size, paging.offset)
            IN  resp' = [status |-> OK,
                         paging |-> paging,
                         meta |-> [total |-> paging.count,
                                   pages |-> paging.last_page,
                                   quantity |-> paging.page_size],
                         objects |-> items]
       ELSE \* _filter logs the DataError; self.page was never set, and
            \* _prepare_pagination fails on it with an AttributeError
            resp' = [status |-> INTERNAL_ERR]
    /\ UNCHANGED <<addresses, runs, users, customers, carts, session, current_user, shelves,
                   now, roles, bank_accounts>>

InitPage ==
    /\ users = <<>>
    /\ customers = <<>>
    /\ carts = <<>>
    /\ session = [customer_id |-> None, user_id |-> None,
                  identity_name |-> FALSE, identity_auth_type |-> FALSE]
    /\ current_user = None
    /\ shelves = <<>>
    /\ now = 0
    /\ roles = <<>>
    /\ bank_accounts = <<>>
    /\ runs = <<>>
    /\ addresses = <<>>
    /\ lastOp = NoOp
    /\ resp = NoResp

NextPage ==
    \E count \in 0..MaxCount, args \in RequestArgs : ListGet(count, args)

SpecPage == InitPage /\ [][NextPage]_vars

\* C6: for count >= 0, page_size > 0 and a requested page > 0, last_page is
\* ceil(count / page_size) (0 when count = 0); the page is the requested
\* page clamped to last_page from above and then to 1 from below, so it is
\* in [1, last_page] whenever there is a page; offset = (page - 1) *
\* page_size; bound = min(page_size * page, count); and the offset plus the
\* number of items returned does not exceed count.
C6_PaginationMath ==
    (lastOp.op = "list.get" /\ DOMAIN lastOp.args = {"page", "page_size"}
        /\ lastOp.args.page > 0 /\ lastOp.args.page_size > 0) =>
        LET p == resp.paging
            n == lastOp.count
            k == lastOp.args.page_size
            asked == lastOp.args.page
        IN  /\ resp.status = OK
            /\ p.last_page * k >= n
            /\ (p.last_page - 1) * k < n
            /\ (n = 0 => p.last_page = 0)
            /\ p.page >= 1
            /\ p.page <= Max(1, p.last_page)
            /\ (asked <= p.last_page => p.page = asked)
            /\ (asked > p.last_page => p.page = Max(1, p.last_page))
            /\ p.offset = (p.page - 1) * k
            /\ p.bound <= k * p.page /\ p.bound <= n
            /\ (p.bound = k * p.page \/ p.bound = n)
            /\ p.offset + Len(resp.objects) <= n
            /\ resp.meta.pages = p.last_page

C6_Witness ==
    /\ lastOp.op = "list.get"
    /\ lastOp.count = MaxCount
    /\ lastOp.args = [page |-> MaxPage, page_size |-> 2]
    /\ resp.paging.last_page = MaxPage
    /\ Len(resp.objects) = 1

(***************************************************************************)
(* Callers of the resources below                                          *)
(***************************************************************************)
\* The address of the account with id u
EmailOf(u) == "user" \o ToString(u) \o "@x.org"

\* The accounts of the role and bank-account models: user 1 is a superuser
\* and an admin, user 2 an admin, the others neither.
StaffUsers ==
    [u \in UserIds |->
        [email |-> EmailOf(u), password |-> encrypt_password("pw1"),
         is_superuser |-> (u = 1), is_admin |-> (u <= 2), customer_id |-> u]]

\* current_user.is_anonymous()
is_anonymous(user) == user = None

\* current_user.is_superuser()
is_superuser(user) == user # None /\ users[user].is_superuser

\* flamaster.core.decorators.login_required: the request passes
login_required == ~is_anonymous(current_user)

\* flask.ext.security.roles_required('admin'): the request passes
roles_required_admin == current_user # None /\ users[current_user].is_admin

(***************************************************************************)
(* RoleResource                                                            *)
(***************************************************************************)
MaxRoles == 3                  \* role ids 1..MaxRoles
RoleIds == 1..MaxRoles
RoleNames == {"admin", "editor"}

\* The delete RoleResource would inherit: ModelResource.delete
RoleDeleteInherited(id) ==
    /\ lastOp' = [op |-> "role.delete", id |-> id]
    /\ IF ~login_required
       THEN resp' = [status |-> UNAUTHORIZED] /\ UNCHANGED roles
       ELSE IF id \notin DOMAIN roles
       THEN resp' = [status |-> NOT_FOUND] /\ UNCHANGED roles
       ELSE /\ roles' = [r \in DOMAIN roles \ {id} |-> roles[r]]
            /\ resp' = [status |-> OK]
    /\ UNCHANGED <<addresses, runs, users, customers, carts, session, current_user, shelves,
                   now, bank_accounts>>

\* RoleResource.delete, behind decorators = [login_required]
RoleDelete(id) ==
    /\ lastOp' = [op |-> "role.delete", id |-> id]
    /\ resp' = [status |-> IF login_required THEN METHOD_NOT_ALLOWED
                           ELSE UNAUTHORIZED]
    /\ UNCHANGED <<addresses, runs, users, customers, carts, session, current_user, shelves,
                   now, roles, bank_accounts>>

\* ModelResource.get with an id, on RoleResource
RoleGet(id) ==
    /\ lastOp' = [op |-> "role.get", id |-> id]
    /\ resp' = IF ~login_required THEN [status |-> UNAUTHORIZED]
               ELSE IF id \notin DOMAIN roles THEN [status |-> NOT_FOUND]
               ELSE [status |-> OK, body |-> [id |-> id, name |-> roles[id]]]
    /\ UNCHANGED <<addresses, runs, users, customers, carts, session, current_user, shelves,
                   now, roles, bank_accounts>>

\* ModelResource.post on RoleResource, behind roles_required('admin')
RolePost(name) ==
    /\ lastOp' = [op |-> "role.post", name |-> name]
    /\ IF ~login_required
       THEN resp' = [status |-> UNAUTHORIZED] /\ UNCHANGED roles
       ELSE IF ~roles_required_admin
       THEN resp' = [status |-> FORBIDDEN] /\ UNCHANGED roles
       ELSE /\ \E r \in RoleIds : r \notin DOMAIN roles
            /\ LET id == CHOOSE r \in RoleIds : r \notin DOMAIN roles
               IN  /\ roles' = [r \in DOMAIN roles \cup {id} |->
                                   IF r = id THEN name ELSE roles[r]]
                   /\ resp' = [status |-> CREATED,
                               body |-> [id |-> id, name |-> name]]
    /\ UNCHANGED <<addresses, runs, users, customers, carts, session, current_user, shelves,
                   now, bank_accounts>>

\* ModelResource.put on RoleResource, behind roles_required('admin')
RolePut(id, name) ==
    /\ lastOp' = [op |-> "role.put", id |-> id, name |-> name]
    /\ IF ~login_required
       THEN resp' = [status |-> UNAUTHORIZED] /\ UNCHANGED roles
       ELSE IF ~roles_required_admin
       THEN resp' = [status |-> FORBIDDEN] /\ UNCHANGED roles
       ELSE IF id \notin DOMAIN roles
       THEN resp' = [status |-> NOT_FOUND] /\ UNCHANGED roles
       ELSE /\ roles' = [roles EXCEPT ![id] = name]
            /\ resp' = [status |-> ACCEPTED, body |-> [id |-> id, name |-> name]]
    /\ UNCHANGED <<addresses, runs, users, customers, carts, session, current_user, shelves,
                   now, bank_accounts>>

\* Any caller, anonymous or one of the accounts; one role or none
InitRole ==
    /\ users = StaffUsers
    /\ current_user \in {None} \cup UserIds
    /\ roles \in {<<>>} \cup {(1 :> n) : n \in RoleNames}
    /\ customers = <<>>
    /\ carts = <<>>
    /\ session = [customer_id |-> None, user_id |-> current_user,
                  identity_name |-> FALSE, identity_auth_type |-> FALSE]
    /\ shelves = <<>>
    /\ now = 0
    /\ bank_accounts = <<>>
    /\ runs = <<>>
    /\ addresses = <<>>
    /\ lastOp = NoOp
    /\ resp = NoResp

NextRole ==
    \/ \E id \in RoleIds : RoleGet(id)
    \/ \E name \in RoleNames : RolePost(name)
    \/ \E id \in RoleIds, name \in RoleNames : RolePut(id, name)
    \/ \E id \in RoleIds : RoleDelete(id)

SpecRole == InitRole /\ [][NextRole]_vars

\* C7: Role DELETE is answered 405 for every logged-in caller, superuser
\* and admin included, and no Role API request removes a Role: the set of
\* Roles only grows.
C7_RolesAppendOnly ==
    /\ [][(lastOp'.op = "role.delete" /\ current_user # None)
          => resp'.status = METHOD_NOT_ALLOWED]_vars
    /\ [][DOMAIN roles \subseteq DOMAIN roles']_vars

C7_Witness ==
    /\ lastOp.op = "role.delete"
    /\ resp.status = METHOD_NOT_ALLOWED
    /\ is_superuser(current_user)
    /\ lastOp.id \in DOMAIN roles
    /\ Cardinality(DOMAIN roles) >= 2

(***************************************************************************)
(* BankAccountResource                                                     *)
(***************************************************************************)
MaxAccounts == 2               \* bank account ids 1..MaxAccounts
AccountIds == 1..MaxAccounts

\* BankAccount.check_owner(user)
check_owner(instance, user) == instance.user_id = user

\* BankAccountResource.get_objects(id=id): the rows the query matches.
\* user_id_arg is request.args['user_id'], or None when the key is absent.
BankAccountGetObjects(id, user_id_arg) ==
    LET asked == IF user_id_arg # None THEN user_id_arg ELSE None
        user_id == IF ~is_superuser(current_user) THEN current_user ELSE asked
    IN  {a \in DOMAIN bank_accounts :
            /\ a = id
            /\ user_id # None => bank_accounts[a].user_id = user_id}

\* BankAccountResource.get_object behind ModelResource.get with an id
BankAccountGet(id, user_id_arg) ==
    /\ lastOp' = [op |-> "bank.get", id |-> id, user_id |-> user_id_arg]
    /\ resp' =
        IF ~login_required THEN [status |-> UNAUTHORIZED]
        ELSE LET found == BankAccountGetObjects(id, user_id_arg)
             IN  IF found = {}
                 THEN [status |-> NOT_FOUND]     \* first_or_404
                 ELSE LET instance == bank_accounts[CHOOSE a \in found : TRUE]
                      IN  IF check_owner(instance, current_user)
                             \/ is_superuser(current_user)
                          THEN [status |-> OK,
                                body |-> [id |-> id, user_id |-> instance.user_id]]
                          ELSE [status |-> UNAUTHORIZED]
    /\ UNCHANGED <<addresses, runs, users, customers, carts, session, current_user, shelves,
                   now, roles, bank_accounts>>

\* BankAccountResource.post
BankAccountPost ==
    /\ lastOp' = [op |-> "bank.post"]
    /\ IF ~login_required
       THEN resp' = [status |-> UNAUTHORIZED] /\ UNCHANGED bank_accounts
       ELSE /\ \E a \in AccountIds : a \notin DOMAIN bank_accounts
            /\ LET id == CHOOSE a \in AccountIds : a \notin DOMAIN bank_accounts
               IN  /\ bank_accounts' =
                        [a \in DOMAIN bank_accounts \cup {id} |->
                            IF a = id THEN [user_id |-> current_user]
                            ELSE bank_accounts[a]]
                   /\ resp' = [status |-> CREATED,
                               body |-> [id |-> id, user_id |-> current_user]]
    /\ UNCHANGED <<addresses, runs, users, customers, carts, session, current_user, shelves,
                   now, roles>>

\* Any caller; no account yet, or one account of any user
InitBank ==
    /\ users = StaffUsers
    /\ current_user \in {None} \cup UserIds
    /\ bank_accounts \in {<<>>} \cup {(1 :> [user_id |-> u]) : u \in UserIds}
    /\ customers = <<>>
    /\ carts = <<>>
    /\ session = [customer_id |-> None, user_id |-> current_user,
                  identity_name |-> FALSE, identity_auth_type |-> FALSE]
    /\ shelves = <<>>
    /\ now = 0
    /\ roles = <<>>
    /\ runs = <<>>
    /\ addresses = <<>>
    /\ lastOp = NoOp
    /\ resp = NoResp

NextBank ==
    \/ \E id \in AccountIds, arg \in {None} \cup UserIds : BankAccountGet(id, arg)
    \/ BankAccountPost

SpecBank == InitBank /\ [][NextBank]_vars

\* C8: a BankAccount GET by the id of an existing account, made by a
\* logged-in caller, returns the account with 200 exactly when the caller
\* owns it or is a superuser; any other logged-in caller gets 401 and no
\* account data.  (Stated for requests without a user_id query parameter.)
C8_OwnerOrSuperuserReads ==
    (lastOp.op = "bank.get" /\ lastOp.user_id = None
        /\ lastOp.id \in DOMAIN bank_accounts /\ current_user # None) =>
        IF bank_accounts[lastOp.id].user_id = current_user
           \/ users[current_user].is_superuser
        THEN /\ resp.status = OK
             /\ resp.body = [id |-> lastOp.id,
                             user_id |-> bank_accounts[lastOp.id].user_id]
        ELSE /\ resp.status = UNAUTHORIZED
             /\ DOMAIN resp = {"status"}

(***************************************************************************)
(* ProfileResource.serialize                                               *)
(***************************************************************************)
\* The columns of User that as_dict exports when nothing is excluded
UserColumns == {"id", "email", "password", "first_name", "last_name", "phone"}

\* Model.as_dict(include, exclude): the keys of the mapping it returns
as_dict(include, exclude) == (UserColumns \cup include) \ exclude

\* ProfileResource.serialize(instance) for the viewer g.user: the keys emitted
ProfileSerialize(viewer, instance) ==
    LET exclude == {"password"}
        include == {"first_name", "last_name", "created_at", "phone",
                    "current_login_at", "active", "billing_address",
                    "logged_at", "is_superuser"}
    IN  IF is_anonymous(viewer) \/ is_anonymous(instance)
        THEN as_dict(include, exclude)
        ELSE IF viewer # instance \/ is_superuser(viewer) = FALSE
        THEN as_dict(include, exclude \cup {"email"})
        ELSE as_dict(include, exclude)

\* The profile list: each stored user is serialized for the caller
ProfileSerializeStep(instance) ==
    /\ lastOp' = [op |-> "profile.serialize", id |-> instance]
    /\ resp' = [status |-> OK, fields |-> ProfileSerialize(current_user, instance)]
    /\ UNCHANGED <<addresses, runs, users, customers, carts, session, current_user, shelves,
                   now, roles, bank_accounts>>

\* Any users, superusers or not, and any viewer
InitProfile ==
    /\ \E supers \in SUBSET UserIds :
          users = [u \in UserIds |->
                      [email |-> EmailOf(u),
                       password |-> encrypt_password("pw1"),
                       is_superuser |-> (u \in supers), is_admin |-> FALSE,
                       customer_id |-> u]]
    /\ current_user \in {None} \cup UserIds
    /\ customers = <<>>
    /\ carts = <<>>
    /\ session = [customer_id |-> None, user_id |-> current_user,
                  identity_name |-> FALSE, identity_auth_type |-> FALSE]
    /\ shelves = <<>>
    /\ now = 0
    /\ roles = <<>>
    /\ bank_accounts = <<>>
    /\ runs = <<>>
    /\ addresses = <<>>
    /\ lastOp = NoOp
    /\ resp = NoResp

NextProfile == \E instance \in DOMAIN users : ProfileSerializeStep(instance)

SpecProfile == InitProfile /\ [][NextProfile]_vars

\* C9: ProfileResource.serialize never emits password; it never emits email
\* to an anonymous viewer; and it never emits email to a non-superuser
\* viewer serializing another user's profile.
C9_NoEmailLeak ==
    lastOp.op = "profile.serialize" =>
        /\ "password" \notin resp.fields
        /\ current_user = None => "email" \notin resp.fields
        /\ (current_user # None /\ ~users[current_user].is_superuser
               /\ current_user # lastOp.id)
            => "email" \notin resp.fields

\* C10: for a logged-in viewer and a stored profile, serialize keeps email
\* exactly when the viewer is the profile's user or is a superuser.
C10_EmailForOwnerOrSuperuser ==
    (lastOp.op = "profile.serialize" /\ current_user # None) =>
        ("email" \in resp.fields
            <=> (current_user = lastOp.id \/ users[current_user].is_superuser))

(***************************************************************************)
(* The session resource next to the other way to log in: a profile request *)
(* that carries an e-mail confirmation token (ProfileResource.get_object)  *)
(***************************************************************************)
\* confirm_email_token_status(token): the user the token names, or None.
\* A token is written as the id it was issued for.
confirm_email_token_status(token) ==
    IF token \in DOMAIN users THEN token ELSE None

\* ProfileResource.get for a request whose body carries a token:
\* get_object confirms the token's user and logs it in, whatever the id
ProfileGetWithToken(id, token) ==
    LET instance == confirm_email_token_status(token)
    IN  /\ lastOp' = [op |-> "profile.get", id |-> id, token |-> token]
        /\ IF instance = None
           THEN \* confirm_user(None): AttributeError
                /\ resp' = [status |-> INTERNAL_ERR]
                /\ UNCHANGED <<session, current_user>>
           ELSE /\ current_user' = login_user(instance)
                /\ session' = [session EXCEPT !.user_id = instance]
                /\ resp' = [status |-> OK, body |-> [id |-> instance]]
        /\ UNCHANGED <<addresses, runs, users, customers, carts, shelves, now, roles,
                       bank_accounts>>

NextAccount ==
    \/ NextSession
    \/ \E id \in UserIds, token \in UserIds : ProfileGetWithToken(id, token)

\* The stores of InitSession, with every cart in the first anonymous
\* customer's hands
InitAccount ==
    /\ InitSession
    /\ \A c \in DOMAIN carts : carts[c].customer_id = MaxUsers + 1

SpecAccount == InitAccount /\ [][NextAccount]_vars

\* What Session DELETE answers and leaves behind
LogoutLeavesAnonymous ==
    [][lastOp'.op = "session.delete"
        => (/\ resp'.status = NO_CONTENT
            /\ resp'.body.is_anonymous
            /\ current_user' = None
            /\ ~session'.identity_name
            /\ ~session'.identity_auth_type
            /\ session'.customer_id = None)]_vars

\* A GET snapshot reports the login state and does not change it
SnapshotIsLoginState ==
    [][lastOp'.op = "session.get"
        => (resp'.body.is_anonymous = (current_user = None)
            /\ current_user' = current_user)]_vars

\* C11 as claimed: Session DELETE returns 204 and leaves the session
\* Anonymous, without the keys identity.name, identity.auth_type and
\* customer_id, and the session stays anonymous (so every GET snapshot has
\* is_anonymous = true) until the next successful PUT; stated for the
\* request that directly follows the logout.
C11_AnonymousUntilPut ==
    /\ LogoutLeavesAnonymous
    /\ SnapshotIsLoginState
    /\ [][(lastOp.op = "session.delete" /\ lastOp'.op # "session.put")
          => current_user' = None]_vars

\* C11 as amended: Session DELETE returns 204 and leaves the session
\* Anonymous, without the three keys; from then on the session stays
\* anonymous, and every GET snapshot has is_anonymous = true, until the
\* next successful Session PUT or the next profile request that carries a
\* confirmation token of a stored user.
C11_AnonymousUntilLogin ==
    /\ LogoutLeavesAnonymous
    /\ SnapshotIsLoginState
    /\ [][(current_user = None /\ current_user' # None)
          => \/ /\ lastOp'.op = "session.put"
                /\ RightCredentials(lastOp'.email, lastOp'.password)
             \/ /\ lastOp'.op = "profile.get"
                /\ lastOp'.token \in DOMAIN users]_vars

C11_Witness ==
    /\ lastOp.op = "session.delete"
    /\ lastOp.uid # None
    /\ lastOp.customer_id # None
    /\ resp.status = NO_CONTENT
    /\ session.customer_id = None
    /\ current_user = None

(***************************************************************************)
(* ProfileResource.put and the role change                                 *)
(***************************************************************************)
\* The roles a Profile PUT can name; the role table of this model holds them
ProfileRoles == {1, 2}

\* ProfileResource.get_object(id) for a request with the given token (None:
\* no token in the body): the status, the instance, and current_user after
ProfileGetObject(id, token) ==
    IF token # None
    THEN LET instance == confirm_email_token_status(token)
         IN  IF instance = None
             THEN [status |-> INTERNAL_ERR, instance |-> None, user |-> current_user]
             ELSE [status |-> OK, instance |-> instance, user |-> login_user(instance)]
    ELSE IF is_superuser(current_user)
    THEN IF id \in DOMAIN users
         THEN [status |-> OK, instance |-> id, user |-> current_user]
         ELSE [status |-> NOT_FOUND, instance |-> None, user |-> current_user]
    ELSE [status |-> OK, instance |-> current_user, user |-> current_user]

\* user.has_role(role); the anonymous user holds none
has_role(user, role) == user # None /\ role \in users[user].roles

\* A wrapper that appends the role for any caller
_change_role_unchecked(user, acting, role_id) ==
    IF role_id = None THEN [status |-> OK, append |-> FALSE]
    ELSE IF role_id \notin DOMAIN roles THEN [status |-> NOT_FOUND, append |-> FALSE]
    ELSE IF has_role(user, role_id) THEN [status |-> OK, append |-> FALSE]
    ELSE [status |-> OK, append |-> TRUE]

\* The wrapper of ProfileResource._change_role, for the instance `user` and
\* the caller `acting`: the status, and whether user.roles.append(role) ran
_change_role(user, acting, role_id) ==
    IF role_id = None THEN [status |-> OK, append |-> FALSE]
    ELSE IF role_id \notin DOMAIN roles THEN [status |-> NOT_FOUND, append |-> FALSE]
    ELSE IF has_role(user, role_id) THEN [status |-> OK, append |-> FALSE]
    ELSE IF is_superuser(acting) THEN [status |-> OK, append |-> TRUE]
    ELSE [status |-> FORBIDDEN, append |-> FALSE]

\* ProfileResource.put.  valid: the body passes the Dict of first_name,
\* last_name, phone and the password pair; role_id and token are None when
\* the body does not carry them.
ProfilePut(id, role_id, token, valid) ==
    LET got == ProfileGetObject(id, token)
        changed == _change_role(got.instance, got.user, role_id)
    IN  /\ lastOp' = [op |-> "profile.put", id |-> id, role_id |-> role_id,
                      token |-> token, valid |-> valid]
        /\ IF ~valid
           THEN \* t.DataError before the appended wrapper runs
                /\ resp' = [status |-> BAD_REQUEST]
                /\ UNCHANGED <<users, current_user, session>>
           ELSE IF got.status # OK
           THEN /\ resp' = [status |-> got.status]
                /\ UNCHANGED <<users, current_user, session>>
           ELSE /\ current_user' = got.user
                /\ session' = [session EXCEPT !.user_id = got.user]
                /\ IF changed.status # OK
                   THEN resp' = [status |-> changed.status] /\ UNCHANGED users
                   ELSE IF got.instance = None
                   THEN \* the anonymous user has no update()
                        resp' = [status |-> INTERNAL_ERR] /\ UNCHANGED users
                   ELSE /\ users' = IF changed.append
                                    THEN [users EXCEPT ![got.instance].roles =
                                                            @ \cup {role_id}]
                                    ELSE users
                        /\ resp' = [status |-> ACCEPTED,
                                    body |-> [id |-> got.instance]]
        /\ UNCHANGED <<addresses, runs, customers, carts, shelves, now, roles, bank_accounts>>

\* The tokens a Profile PUT carries: none, the superuser's, an ordinary
\* user's, or one that names nobody
TokenInputs == {None, 1, 2, MaxUsers + 1}

\* User 1 is a superuser; any of the users may hold role 1 already
InitProfilePut ==
    /\ \E holders \in SUBSET UserIds :
          users = [u \in UserIds |->
                      [email |-> EmailOf(u),
                       password |-> encrypt_password("pw1"),
                       is_superuser |-> (u = 1), is_admin |-> (u <= 2),
                       customer_id |-> u,
                       roles |-> IF u \in holders THEN {1} ELSE {}]]
    /\ current_user \in {None} \cup UserIds
    /\ roles = [r \in ProfileRoles |-> IF r = 1 THEN "admin" ELSE "editor"]
    /\ customers = <<>>
    /\ carts = <<>>
    /\ session = [customer_id |-> None, user_id |-> current_user,
                  identity_name |-> FALSE, identity_auth_type |-> FALSE]
    /\ shelves = <<>>
    /\ now = 0
    /\ bank_accounts = <<>>
    /\ runs = <<>>
    /\ addresses = <<>>
    /\ lastOp = NoOp
    /\ resp = NoResp

NextProfilePut ==
    \E id \in UserIds \cup {MaxUsers + 1},
       role_id \in {None} \cup ProfileRoles \cup {3},
       token \in TokenInputs,
       valid \in BOOLEAN :
        ProfilePut(id, role_id, token, valid)

SpecProfilePut == InitProfilePut /\ [][NextProfilePut]_vars

\* The user a Profile PUT acts as: the token's user when the body carries a
\* token, the logged-in user otherwise
ActingCaller(op) == IF op.token # None THEN op.token ELSE current_user

\* The profile a Profile PUT is about: the token's user, the user with the
\* id of the path for a superuser, the caller's own otherwise
TargetProfile(op) ==
    IF op.token # None THEN op.token
    ELSE IF current_user # None /\ users[current_user].is_superuser THEN op.id
    ELSE current_user

\* C12: in any sequence of Profile PUT requests a user's role set changes
\* only by gaining the role_id of a PUT whose acting caller is a superuser;
\* a PUT with a role_id its target does not hold, made by a logged-in
\* non-superuser, is answered 403 and leaves all roles as they were; and a
\* PUT with a role_id its target already holds changes no roles.
C12_RolesOnlyBySuperuser ==
    [][lastOp'.op = "profile.put" =>
        LET op == lastOp'
            acting == ActingCaller(op)
            target == TargetProfile(op)
        IN  /\ DOMAIN users' = DOMAIN users
            /\ \A u \in DOMAIN users :
                users'[u].roles # users[u].roles
                => /\ acting \in DOMAIN users /\ users[acting].is_superuser
                   /\ u = target
                   /\ op.role_id \notin users[u].roles
                   /\ users'[u].roles = users[u].roles \cup {op.role_id}
            /\ (/\ op.valid
                /\ acting \in DOMAIN users /\ ~users[acting].is_superuser
                /\ op.role_id \in DOMAIN roles
                /\ op.role_id \notin users[target].roles)
                => (resp'.status = FORBIDDEN /\ users' = users)
            /\ (target \in DOMAIN users /\ op.role_id \in users[target].roles)
                => users' = users]_vars

C12_Witness ==
    /\ lastOp.op = "profile.put"
    /\ resp.status = FORBIDDEN
    /\ current_user = 2
    /\ lastOp.token = None
    /\ lastOp.role_id = 2
    /\ 2 \in users[3].roles
    /\ 2 \notin users[2].roles

(***************************************************************************)
(* Overlapping runs of the cart-expiry task (src/product/tasks.py)         *)
(*                                                                         *)
(* Each invocation runs in its own database session and nothing in the     *)
(* task locks the carts it reads.  An UPDATE adds to the stored quantity,  *)
(* so the UPDATEs of two sessions add up in whichever order they commit;   *)
(* the model applies each statement to the store when it is issued.        *)
(***************************************************************************)
MaxRuns == 2                   \* invocations of the task
TaskRuns == 1..MaxRuns
TaskIdle == [pc |-> "idle", marker |-> 0, rows |-> {}, response |-> 0,
             overlapped |-> FALSE]

InProgress(p) == runs[p].pc \in {"loop", "count", "delete"}

\* The Cart rows a SELECT of the expired carts loads
CartRows(cs) ==
    {[id |-> c, price_option_id |-> carts[c].price_option_id,
      amount |-> carts[c].amount] : c \in cs}

\* expirity_marker is taken from the clock, and the for statement runs the
\* SELECT of expired_q and loads its rows
TaskStart(p) ==
    /\ runs[p].pc = "idle"
    /\ LET expirity_marker == now - ExpiryMinutes
       IN  runs' = [runs EXCEPT ![p] =
                [pc |-> "loop", marker |-> expirity_marker,
                 rows |-> CartRows(Expired(expirity_marker)),
                 response |-> 0,
                 overlapped |-> \E q \in TaskRuns \ {p} : InProgress(q)]]
    /\ lastOp' = [op |-> "task"]
    /\ resp' = NoResp
    /\ UNCHANGED <<addresses, users, customers, carts, session, current_user, shelves, now,
                   roles, bank_accounts>>

\* The body of the loop for each loaded row, in query order
RECURSIVE RestoreRows(_, _)
RestoreRows(sh, rows) ==
    IF rows = {} THEN sh
    ELSE LET r == CHOOSE x \in rows : \A y \in rows : x.id <= y.id
         IN  RestoreRows(ShelfUpdated(sh, r), rows \ {r})

\* for cart in expired_q: Shelf.query.filter_by(...).update(...)
TaskRestore(p) ==
    /\ runs[p].pc = "loop"
    /\ shelves' = RestoreRows(shelves, runs[p].rows)
    /\ runs' = [runs EXCEPT ![p].pc = "count"]
    /\ lastOp' = [op |-> "task"]
    /\ resp' = NoResp
    /\ UNCHANGED <<addresses, users, customers, carts, session, current_user, now, roles,
                   bank_accounts>>

\* response = expired_q.count(): the query runs again
TaskCount(p) ==
    /\ runs[p].pc = "count"
    /\ runs' = [runs EXCEPT ![p].pc = "delete",
                            ![p].response = Cardinality(Expired(runs[p].marker))]
    /\ lastOp' = [op |-> "task"]
    /\ resp' = NoResp
    /\ UNCHANGED <<addresses, users, customers, carts, session, current_user, shelves, now,
                   roles, bank_accounts>>

\* A task whose DELETE removes nothing
TaskDeleteCommitKeepsCarts(p) ==
    /\ runs[p].pc = "delete"
    /\ carts' = carts
    /\ runs' = [runs EXCEPT ![p].pc = "done"]
    /\ lastOp' = [op |-> "task"]
    /\ resp' = [count |-> runs[p].response]
    /\ UNCHANGED <<addresses, users, customers, session, current_user, shelves, now, roles,
                   bank_accounts>>

\* expired_q.delete(); db.session.commit(); return response
TaskDeleteCommit(p) ==
    /\ runs[p].pc = "delete"
    /\ carts' = [c \in DOMAIN carts \ Expired(runs[p].marker) |-> carts[c]]
    /\ runs' = [runs EXCEPT ![p].pc = "done"]
    /\ lastOp' = [op |-> "task"]
    /\ resp' = [count |-> runs[p].response]
    /\ UNCHANGED <<addresses, users, customers, session, current_user, shelves, now, roles,
                   bank_accounts>>

\* Empty shelves, one per price option at least, and carts touched at minute 0
InitRace ==
    /\ shelves = [s \in ShelfIds |->
                    [price_option_id |-> IF s = 1 THEN 1 ELSE 2, quantity |-> 0]]
    /\ carts \in [CartIds -> [customer_id : {1}, price_option_id : PriceOptions,
                              amount : {1, MaxAmount}, touched_at : {0}]]
    /\ now = ExpiryMinutes
    /\ users = <<>>
    /\ customers = <<>>
    /\ session = [customer_id |-> None, user_id |-> None,
                  identity_name |-> FALSE, identity_auth_type |-> FALSE]
    /\ current_user = None
    /\ roles = <<>>
    /\ bank_accounts = <<>>
    /\ runs = [p \in TaskRuns |-> TaskIdle]
    /\ addresses = <<>>
    /\ lastOp = NoOp
    /\ resp = NoResp

NextRace ==
    \/ \E p \in TaskRuns : TaskStart(p)
    \/ \E p \in TaskRuns : TaskRestore(p)
    \/ \E p \in TaskRuns : TaskCount(p)
    \/ \E p \in TaskRuns : TaskDeleteCommit(p)
    \/ Tick

SpecRace == InitRace /\ [][NextRace]_vars

\* The runs whose loop has finished
Restored == {p \in TaskRuns : runs[p].pc \in {"count", "delete", "done"}}

\* How many finished loops had loaded cart c
Times(c) == Cardinality({p \in Restored : \E r \in runs[p].rows : r.id = c})

\* What the rows of a set reserve of one price option
RECURSIVE RowsAmount(_, _)
RowsAmount(rows, option) ==
    IF rows = {} THEN 0
    ELSE LET r == CHOOSE x \in rows : TRUE
         IN  (IF r.price_option_id = option THEN r.amount ELSE 0)
                + RowsAmount(rows \ {r}, option)

\* What the finished loops of a set of runs added for one price option
RECURSIVE RunsAmount(_, _)
RunsAmount(ps, option) ==
    IF ps = {} THEN 0
    ELSE LET p == CHOOSE x \in ps : TRUE
         IN  RowsAmount(runs[p].rows, option) + RunsAmount(ps \ {p}, option)

NoOverlap == \A p \in TaskRuns : ~runs[p].overlapped

\* C13: the Shelf of a price option holds what every finished loop added for
\* the rows it had loaded, so a Cart that two runs both loaded before either
\* deleted it is added to its Shelf twice; when no run starts while another
\* is in progress no Cart is added more than once, and every deleted Cart has
\* been added exactly once.
C13_OverlapRestoresTwice ==
    /\ \A s \in DOMAIN shelves :
        shelves[s].quantity = RunsAmount(Restored, shelves[s].price_option_id)
    /\ \A p, q \in Restored : \A r \in runs[p].rows \cap runs[q].rows :
        p # q => \A s \in DOMAIN shelves :
            shelves[s].price_option_id = r.price_option_id
                => shelves[s].quantity >= r.amount + r.amount
    /\ NoOverlap =>
        /\ \A c \in CartIds : Times(c) <= 1
        /\ \A c \in CartIds \ DOMAIN carts : Times(c) = 1

\* Two runs loaded the same cart, both finished, and its shelf got it twice
C13_Witness ==
    /\ \A p \in TaskRuns : runs[p].pc = "done"
    /\ \E p, q \in TaskRuns : \E r \in runs[p].rows \cap runs[q].rows :
        /\ p # q
        /\ r.id \notin DOMAIN carts
        /\ Times(r.id) > 1
        /\ \E s \in DOMAIN shelves :
            /\ shelves[s].price_option_id = r.price_option_id
            /\ shelves[s].quantity >= r.amount + r.amount

(***************************************************************************)
(* AddressResource (src/account/api.py)                                    *)
(***************************************************************************)
MaxAddresses == 2              \* address ids 1..MaxAddresses
AddressIds == 1..MaxAddresses
AddressTypes == {"billing", "delivery"}
NoCustomer == MaxUsers + MaxAnon + 1        \* an id no Customer row has

\* customer_id of the JSON body: left out, a stored customer, or a stale id
BodyCustomerIds == {None, MaxUsers + 1, NoCustomer}

\* Address.create(**data): the row is added and committed
AddressCreated(id, data) ==
    [a \in DOMAIN addresses \cup {id} |->
        IF a = id THEN [customer_id |-> data.customer_id, attached_as |-> None]
        ELSE addresses[a]]

\* customer.set_address(address_type, address); customer.save()
set_address(table, id, customer, address_type) ==
    [table EXCEPT ![id] = [customer_id |-> customer,
                           attached_as |-> address_type]]

\* AddressResource._customer: the owning customer, or the status it aborts with
_customer(data) ==
    IF is_anonymous(current_user)
    THEN LET customer_id == IF session.customer_id # None
                            THEN session.customer_id ELSE data.customer_id
         IN  IF customer_id = None THEN [abort |-> BAD_REQUEST]
             ELSE IF customer_id \notin DOMAIN customers
                  THEN [abort |-> NOT_FOUND]
                  ELSE [abort |-> None, customer |-> customer_id]
    ELSE [abort |-> None, customer |-> users[current_user].customer_id]

\* AddressResource.post.  A customer_id of the body is written to the new row
\* as it is: a store that enforces the foreign key refuses a stale one, a
\* store that does not keeps the row.
AddressPost(data, valid, enforced) ==
    /\ lastOp' = [op |-> "address.post", customer_id |-> data.customer_id,
                  valid |-> valid]
    /\ \E a \in AddressIds : a \notin DOMAIN addresses
    /\ LET id == CHOOSE a \in AddressIds : a \notin DOMAIN addresses
           found == _customer(data)
           stale == data.customer_id # None
                        /\ data.customer_id \notin DOMAIN customers
       IN  IF ~valid
           THEN resp' = [status |-> BAD_REQUEST] /\ UNCHANGED addresses
           ELSE IF stale /\ enforced
           THEN resp' = [status |-> INTERNAL_ERR] /\ UNCHANGED addresses
           ELSE IF found.abort # None
           THEN /\ addresses' = AddressCreated(id, data)
                /\ resp' = [status |-> found.abort]
           ELSE /\ addresses' = set_address(AddressCreated(id, data), id,
                                            found.customer, data.type)
                /\ resp' = [status |-> CREATED, body |-> [id |-> id]]
    /\ UNCHANGED <<users, customers, carts, session, current_user, shelves, now,
                   roles, bank_accounts, runs>>

\* Any caller: anonymous with or without a customer in the session, or logged
\* in with the user's customer in the session; no address yet
InitAddress ==
    /\ users = StaffUsers
    /\ customers = [c \in UserIds \cup AnonIds |->
                       [user_id |-> IF c \in UserIds THEN c ELSE None]]
    /\ current_user \in {None} \cup UserIds
    /\ \E customer_id \in {None} \cup AnonIds :
        session = [customer_id |-> IF current_user = None THEN customer_id
                                   ELSE users[current_user].customer_id,
                   user_id |-> current_user,
                   identity_name |-> FALSE, identity_auth_type |-> FALSE]
    /\ carts = <<>>
    /\ shelves = <<>>
    /\ now = 0
    /\ roles = <<>>
    /\ bank_accounts = <<>>
    /\ runs = <<>>
    /\ addresses = <<>>
    /\ lastOp = NoOp
    /\ resp = NoResp

NextAddress ==
    \E customer_id \in BodyCustomerIds, type \in AddressTypes,
       valid \in BOOLEAN, enforced \in BOOLEAN :
        AddressPost([customer_id |-> customer_id, type |-> type], valid, enforced)

SpecAddress == InitAddress /\ [][NextAddress]_vars

\* The customer id an anonymous request carries, the session's before the body's
CarriedCustomerId(op) ==
    IF session.customer_id # None THEN session.customer_id ELSE op.customer_id

\* C14: after an Address POST every stored Address is attached to a stored
\* Customer; a valid POST of an anonymous caller with no customer_id in the
\* session or the body is answered 400, one whose customer_id is no Customer's
\* is answered 404, and neither leaves a new Address in the store.
C14_AddressesAttached ==
    [][lastOp'.op = "address.post" =>
        /\ \A a \in DOMAIN addresses' :
            /\ addresses'[a].customer_id \in DOMAIN customers'
            /\ addresses'[a].attached_as \in AddressTypes
        /\ (is_anonymous(current_user) /\ lastOp'.valid) =>
            /\ CarriedCustomerId(lastOp') = None =>
                (resp'.status = BAD_REQUEST /\ addresses' = addresses)
            /\ (CarriedCustomerId(lastOp') # None
                    /\ CarriedCustomerId(lastOp') \notin DOMAIN customers) =>
                (resp'.status = NOT_FOUND /\ addresses' = addresses)]_vars

====
